---- MODULE Spec2Model ----
(***************************************************************************)
(* A model of the Composable scene graph: Node, Component, Transform and   *)
(* Scene (composable.h, composable.cpp, transform.h, transform.cpp).        *)
(*                                                                         *)
(* The heap is a record h = [node, comp, roots, crashed]:                  *)
(*   node   the Node objects ever constructed, indexed by identity;        *)
(*   comp   the Component objects ever constructed, indexed by identity;   *)
(*   roots  Scene::rootNodes;                                              *)
(*   crashed  set when a recursion of the code never returns (unbounded    *)
(*            recursion over a cyclic graph exhausts the stack).           *)
(* Every method is an operator from a heap to a heap; the actions apply    *)
(* them to the state variables.  The client keeps every NodePtr and every  *)
(* component pointer it was handed, so no weak_ptr ever expires.           *)
(***************************************************************************)
EXTENDS Integers, Sequences, FiniteSets, TLC

VARIABLES node, comp, rootNodes, crashed, op, loaded, doc, fe, calls

vars == <<node, comp, rootNodes, crashed, op, loaded, doc, fe, calls>>

\* ------------------------------------------------------------------ bounds

MaxNodes == 3
MaxExtra == 1
MaxCalls == 5
MaxRemovalNodes == 5
MaxOwnedNodes == 2
MaxOwnedCalls == 6

\* ------------------------------------------------------------------ values

NULL == 0

TypeNames == {"Transform", "Other"}

Vec3(x, y, z) == <<x, y, z>>

VAdd(a, b) == <<a[1] + b[1], a[2] + b[2], a[3] + b[3]>>

VMul(a, b) == <<a[1] * b[1], a[2] * b[2], a[3] * b[3]>>

Heap == [node |-> node, comp |-> comp, roots |-> rootNodes, crashed |-> crashed]

\* ---------------------------------------------------------------- Transform

\* Transform::Transform(); the owner is Component::owner, set by SetOwner.
\* The attach* and detach* fields are history: how often OnAttach and OnDetach
\* ran on the component, and what the last run found (the node its owner
\* reference locked to, and the node whose component map held it).  No
\* operation reads them.
NewComponent(type, owner) ==
    [type |-> type, owner |-> owner,
     localPosition |-> Vec3(0, 0, 0), localRotation |-> Vec3(0, 0, 0),
     localScale |-> Vec3(1, 1, 1), dirty |-> TRUE,
     worldPosition |-> Vec3(0, 0, 0), worldRotation |-> Vec3(0, 0, 0),
     worldScale |-> Vec3(1, 1, 1),
     attachCalls |-> 0, attachOwner |-> NULL, attachHolder |-> NULL,
     detachCalls |-> 0, detachHolder |-> NULL]

\* The node whose component map holds component t under t's type, if any.
Holder(h, t) ==
    LET S == {n \in 1..Len(h.node) : h.node[n].components[h.comp[t].type] = t}
    IN  IF S = {} THEN NULL ELSE CHOOSE n \in S : TRUE

\* Node::GetComponent<Transform>(): the lookup in the component map.
GetComponentTransform(h, n) == h.node[n].components["Transform"]

\* Node::GetTransform(): the fast-path pointer.
GetTransform(h, n) == h.node[n].transform

\* The world-from-local assignments of UpdateWorldTransform's two else branches.
WorldFromLocal(c) ==
    [c EXCEPT !.worldPosition = c.localPosition,
              !.worldRotation = c.localRotation,
              !.worldScale = c.localScale]

\* The arithmetic of UpdateWorldTransform's parent branch.
WorldFromParent(c, pp, pr, ps) ==
    [c EXCEPT !.worldPosition = VAdd(pp, VMul(c.localPosition, ps)),
              !.worldRotation = VAdd(pr, c.localRotation),
              !.worldScale = VMul(ps, c.localScale)]

\* Transform::UpdateWorldTransform.  depth counts the nested calls; a chain of
\* nested calls longer than the number of components revisits a component that
\* is still dirty, so the recursion never returns.
RECURSIVE UpdateWorldTransform(_, _, _)
UpdateWorldTransform(h, t, depth) ==
    IF depth > Len(h.comp) THEN [h EXCEPT !.crashed = TRUE]
    ELSE
    LET c == h.comp[t]
        n == c.owner
        p == IF n = NULL THEN NULL ELSE h.node[n].parent
        pt == IF p = NULL THEN NULL ELSE GetComponentTransform(h, p)
    IN  IF n = NULL THEN [h EXCEPT !.comp[t].dirty = FALSE]
        ELSE IF pt = NULL
        THEN [h EXCEPT !.comp[t] = [WorldFromLocal(c) EXCEPT !.dirty = FALSE]]
        ELSE
        \* the three getter calls on the parent's Transform, in order
        LET h1 == IF h.comp[pt].dirty THEN UpdateWorldTransform(h, pt, depth + 1) ELSE h
            pp == h1.comp[pt].worldPosition
            h2 == IF h1.comp[pt].dirty THEN UpdateWorldTransform(h1, pt, depth + 1) ELSE h1
            pr == h2.comp[pt].worldRotation
            h3 == IF h2.comp[pt].dirty THEN UpdateWorldTransform(h2, pt, depth + 1) ELSE h2
            ps == h3.comp[pt].worldScale
        IN  IF h1.crashed THEN h1
            ELSE [h3 EXCEPT !.comp[t] =
                     [WorldFromParent(h3.comp[t], pp, pr, ps) EXCEPT !.dirty = FALSE]]

\* The body shared by GetWorldPosition / GetWorldRotation / GetWorldScale: the
\* heap after the call; the value returned is read from it.
GetWorld(h, t) == IF h.comp[t].dirty THEN UpdateWorldTransform(h, t, 1) ELSE h

GetWorldPosition(h, t) == GetWorld(h, t).comp[t].worldPosition

GetWorldRotation(h, t) == GetWorld(h, t).comp[t].worldRotation

GetWorldScale(h, t) == GetWorld(h, t).comp[t].worldScale

\* "Mark children as dirty": the loop of the three setters.
RECURSIVE MarkChildrenDirty(_, _, _)
MarkChildrenDirty(h, kids, i) ==
    IF i > Len(kids) THEN h
    ELSE LET ct == GetComponentTransform(h, kids[i])
         IN  MarkChildrenDirty(
                 IF ct = NULL THEN h ELSE [h EXCEPT !.comp[ct].dirty = TRUE],
                 kids, i + 1)

\* dirty = true and the children loop, after the field assignment.
MarkDirty(h, t) ==
    LET h1 == [h EXCEPT !.comp[t].dirty = TRUE]
        n == h.comp[t].owner
    IN  IF n = NULL THEN h1 ELSE MarkChildrenDirty(h1, h1.node[n].children, 1)

SetLocalPosition(h, t, v) == MarkDirty([h EXCEPT !.comp[t].localPosition = v], t)

SetLocalRotation(h, t, v) == MarkDirty([h EXCEPT !.comp[t].localRotation = v], t)

SetLocalScale(h, t, v) == MarkDirty([h EXCEPT !.comp[t].localScale = v], t)

TranslateLocal(h, t, d) == SetLocalPosition(h, t, VAdd(h.comp[t].localPosition, d))

RotateLocal(h, t, d) == SetLocalRotation(h, t, VAdd(h.comp[t].localRotation, d))

\* Transform::OnAttach and the default Component::OnAttach.
OnAttach(h, t) ==
    LET h1 == [h EXCEPT !.comp[t].attachCalls = @ + 1,
                        !.comp[t].attachOwner = h.comp[t].owner,
                        !.comp[t].attachHolder = Holder(h, t)]
    IN  IF h.comp[t].type = "Transform"
        THEN UpdateWorldTransform([h1 EXCEPT !.comp[t].dirty = TRUE], t, 1)
        ELSE h1

\* Transform::OnDetach and the default Component::OnDetach.
OnDetach(h, t) ==
    LET h1 == [h EXCEPT !.comp[t].detachCalls = @ + 1,
                        !.comp[t].detachHolder = Holder(h, t)]
    IN  IF h.comp[t].type = "Transform"
        THEN [h1 EXCEPT !.comp[t] = WorldFromLocal(h1.comp[t])]
        ELSE h1

\* --------------------------------------------------------------------- Node

NoComponents == [ty \in TypeNames |-> NULL]

\* Node::AddChild: push_back unless already present.
AddChild(h, p, c) ==
    IF \E i \in 1..Len(h.node[p].children) : h.node[p].children[i] = c
    THEN h
    ELSE [h EXCEPT !.node[p].children = Append(@, c)]

\* Node::RemoveChild: erase(remove(...)), the other children keep their order.
RemoveChild(h, p, c) ==
    [h EXCEPT !.node[p].children = SelectSeq(@, LAMBDA x : x # c)]

\* Node::AddComponent<T>().  weakThis is what weak_from_this() returns at the
\* call: the node itself once a shared_ptr owns it, and the empty weak_ptr
\* while the Node constructor is still running (make_shared runs the
\* constructor before it sets up enable_shared_from_this).
AddComponent(h, n, type, weakThis) ==
    LET t == Len(h.comp) + 1
        h1 == [h EXCEPT !.comp = Append(@, NewComponent(type, weakThis)),
                        !.node[n].components[type] = t]
        h2 == IF type = "Transform" THEN [h1 EXCEPT !.node[n].transform = t] ELSE h1
    IN  OnAttach(h2, t)

RemoveComponent_KeepsFastPath(h, n, type) ==
    LET t == h.node[n].components[type]
    IN  IF t = NULL THEN h
        ELSE [OnDetach(h, t) EXCEPT !.node[n].components[type] = NULL]

\* Node::RemoveComponent<T>().
RemoveComponent(h, n, type) ==
    LET t == h.node[n].components[type]
    IN  IF t = NULL THEN h
        ELSE LET h1 == OnDetach(h, t)
                 h2 == IF type = "Transform"
                       THEN [h1 EXCEPT !.node[n].transform = NULL] ELSE h1
             IN  [h2 EXCEPT !.node[n].components[type] = NULL]

\* Node::HasComponent<T>().
HasComponent(h, n, type) == h.node[n].components[type] # NULL

\* Node::Node(name): the members' initial values, then AddComponent<Transform>()
\* from inside the constructor.  The new node's identity is Len(h.node) + 1.
\* first records which component that call created (a history field, read by
\* no operation).
NewNode(h, name) ==
    LET n == Len(h.node) + 1
        h1 == [h EXCEPT !.node = Append(@,
                  [name |-> name, parent |-> NULL, children |-> <<>>,
                   components |-> NoComponents, transform |-> NULL,
                   active |-> TRUE, first |-> Len(h.comp) + 1])]
    IN  AddComponent(h1, n, "Transform", NULL)

\* The three statements of SetParent's "Update transform when parent changes".
AdoptWorldAsLocal(h, t) ==
    LET g1 == GetWorld(h, t)
        h1 == SetLocalPosition(g1, t, g1.comp[t].worldPosition)
        g2 == GetWorld(h1, t)
        h2 == SetLocalRotation(g2, t, g2.comp[t].worldRotation)
        g3 == GetWorld(h2, t)
    IN  SetLocalScale(g3, t, g3.comp[t].worldScale)

SetParent_NoDetach(h, n, newParent) ==
    IF newParent = NULL THEN h
    ELSE LET h2 == AddChild([h EXCEPT !.node[n].parent = newParent], newParent, n)
             t == GetTransform(h2, n)
         IN  IF t = NULL THEN h2 ELSE AdoptWorldAsLocal(h2, t)

\* Node::SetParent.
SetParent(h, n, newParent) ==
    LET old == h.node[n].parent
        h1 == IF old # NULL THEN RemoveChild(h, old, n) ELSE h
    IN  IF newParent = NULL THEN h1
        ELSE LET h2 == AddChild([h1 EXCEPT !.node[n].parent = newParent], newParent, n)
                 t == GetTransform(h2, n)
             IN  IF t = NULL THEN h2 ELSE AdoptWorldAsLocal(h2, t)

\* Node::RemoveParent.
RemoveParent(h, n) ==
    LET p == h.node[n].parent
    IN  IF p = NULL THEN h
        ELSE [RemoveChild(h, p, n) EXCEPT !.node[n].parent = NULL]

\* Node::SetActive: the flag, then the same call on every child, in order.  A
\* call that finds the flag already equal returns at once.
RECURSIVE SetActive(_, _, _)
RECURSIVE SetActiveChildren(_, _, _, _)
SetActive(h, n, value) ==
    IF h.node[n].active = value THEN h
    ELSE LET h1 == [h EXCEPT !.node[n].active = value]
         IN  SetActiveChildren(h1, h1.node[n].children, 1, value)

SetActiveChildren(h, kids, i, value) ==
    IF i > Len(kids) THEN h
    ELSE SetActiveChildren(SetActive(h, kids[i], value), kids, i + 1, value)

\* -------------------------------------------------------------------- Scene

\* Scene::CreateNode(name).
CreateNode(h, name) ==
    LET h1 == NewNode(h, name)
    IN  [h1 EXCEPT !.roots = Append(@, Len(h1.node))]

CreateNodeWithParent_AlsoRoot(h, parent, name) ==
    LET h1 == NewNode(h, name)
        n == Len(h1.node)
        h2 == [h1 EXCEPT !.roots = Append(@, n)]
    IN  IF parent # NULL THEN SetParent(h2, n, parent) ELSE h2

\* Scene::CreateNode(parent, name).
CreateNodeWithParent(h, parent, name) ==
    LET h1 == NewNode(h, name)
        n == Len(h1.node)
    IN  IF parent # NULL THEN SetParent(h1, n, parent)
        ELSE [h1 EXCEPT !.roots = Append(@, n)]

\* Scene::RemoveNode: the root list, the parent's children, then every child of
\* the copy of the children list taken at that point.
RECURSIVE RemoveNode(_, _)
RECURSIVE RemoveNodeChildren(_, _, _)
RemoveNode(h, n) ==
    LET h1 == [h EXCEPT !.roots = SelectSeq(@, LAMBDA x : x # n)]
        p == h1.node[n].parent
        h2 == IF p # NULL THEN RemoveChild(h1, p, n) ELSE h1
    IN  RemoveNodeChildren(h2, h2.node[n].children, 1)

RemoveNodeChildren(h, kids, i) ==
    IF i > Len(kids) THEN h
    ELSE RemoveNodeChildren(RemoveNode(h, kids[i]), kids, i + 1)

\* Scene::CollectAllNodes: the pre-order of the forest under the root list.
\* collect nested deeper than the number of nodes is on a cycle of children
\* lists and never returns: the result is then the marker <<NULL>>.
RECURSIVE Collect(_, _, _)
RECURSIVE CollectSeq(_, _, _, _)
Collect(h, n, depth) ==
    IF depth > Len(h.node) THEN <<NULL>>
    ELSE <<n>> \o CollectSeq(h, h.node[n].children, 1, depth + 1)

CollectSeq(h, kids, i, depth) ==
    IF i > Len(kids) THEN <<>>
    ELSE Collect(h, kids[i], depth) \o CollectSeq(h, kids, i + 1, depth)

CollectAllNodes(h) == CollectSeq(h, h.roots, 1, 1)

Overflows(s) == \E i \in 1..Len(s) : s[i] = NULL

\* Scene::FindNodeByName: the callback assigns result at every node of the
\* snapshot whose name equals the argument; result is returned after the walk.
RECURSIVE FindVisit(_, _, _, _, _)
FindVisit(h, all, i, name, result) ==
    IF i > Len(all) THEN result
    ELSE FindVisit(h, all, i + 1, name,
                   IF h.node[all[i]].name = name THEN all[i] ELSE result)

FindNodeByName(h, name) == FindVisit(h, CollectAllNodes(h), 1, name, NULL)

\* Scene::Update: the callback on every node of the snapshot calls Update(dt) on
\* each component in the map of a node whose active flag is set (the default
\* Component::Update, which neither Transform nor any other type overrides).
\* The result tells, for every component, how many calls it received.
RECURSIVE UpdateVisit(_, _, _, _)
UpdateVisit(h, all, i, counts) ==
    IF i > Len(all) THEN counts
    ELSE LET n == all[i]
             held == {h.node[n].components[ty] : ty \in TypeNames} \ {NULL}
         IN  UpdateVisit(h, all, i + 1,
                 IF h.node[n].active
                 THEN [t \in DOMAIN counts |-> counts[t] + (IF t \in held THEN 1 ELSE 0)]
                 ELSE counts)

SceneUpdate(h) == UpdateVisit(h, CollectAllNodes(h), 1, [t \in 1..Len(h.comp) |-> 0])

\* ------------------------------------------------------------ serialization

\* Vec3::Serialize and Vec3::Deserialize.
VecSerialize(v) == [x |-> v[1], y |-> v[2], z |-> v[3]]

VecDeserialize(j) == <<j.x, j.y, j.z>>

\* Transform::Serialize; another component type's payload is its own affair.
ComponentSerialize(c) ==
    IF c.type = "Transform"
    THEN [position |-> VecSerialize(c.localPosition),
          rotation |-> VecSerialize(c.localRotation),
          scale |-> VecSerialize(c.localScale)]
    ELSE [payload |-> "other"]

TransformDeserialize_NoScale(h, t, j) ==
    [h EXCEPT !.comp[t].localPosition = VecDeserialize(j.position),
              !.comp[t].localRotation = VecDeserialize(j.rotation),
              !.comp[t].dirty = TRUE]

\* Transform::Deserialize: the three local fields, then dirty = true.
TransformDeserialize(h, t, j) ==
    [h EXCEPT !.comp[t].localPosition = VecDeserialize(j.position),
              !.comp[t].localRotation = VecDeserialize(j.rotation),
              !.comp[t].localScale = VecDeserialize(j.scale),
              !.comp[t].dirty = TRUE]

\* What a Serialize call that never returns leaves in place of a document.
NoDoc == [overflow |-> TRUE]

\* The "components" array of Node::Serialize, one entry per map entry.
ComponentEntries(h, n) ==
    LET cs == h.node[n].components
        e(ty) == IF cs[ty] = NULL THEN <<>>
                 ELSE <<[type |-> ty, data |-> ComponentSerialize(h.comp[cs[ty]])]>>
    IN  e("Transform") \o e("Other")

\* Node::Serialize.  Nested deeper than the number of nodes, the recursion is on
\* a cycle of children lists and never returns.
RECURSIVE NodeSerialize(_, _, _)
NodeSerialize(h, n, depth) ==
    IF depth > Len(h.node) THEN NoDoc
    ELSE [name |-> h.node[n].name,
          active |-> h.node[n].active,
          components |-> ComponentEntries(h, n),
          children |-> [i \in 1..Len(h.node[n].children) |->
                           NodeSerialize(h, h.node[n].children[i], depth + 1)]]

\* Scene::Serialize.
SceneSerialize(h) ==
    [rootNodes |-> [i \in 1..Len(h.roots) |-> NodeSerialize(h, h.roots[i], 1)]]

RECURSIVE NodeDocOverflows(_)
NodeDocOverflows(d) ==
    \/ "overflow" \in DOMAIN d
    \/ \E i \in 1..Len(d.children) : NodeDocOverflows(d.children[i])

SceneDocOverflows(d) == \E i \in 1..Len(d.rootNodes) : NodeDocOverflows(d.rootNodes[i])

RECURSIVE NodeDocSize(_)
RECURSIVE DocSeqSize(_, _)
NodeDocSize(d) == 1 + DocSeqSize(d.children, 1)

DocSeqSize(ds, i) == IF i > Len(ds) THEN 0 ELSE NodeDocSize(ds[i]) + DocSeqSize(ds, i + 1)

\* The component loop of Node::Deserialize: only "Transform" is recognised.
RECURSIVE DeserializeComponents(_, _, _, _)
DeserializeComponents(h, n, entries, i) ==
    IF i > Len(entries) THEN h
    ELSE LET t == GetTransform(h, n)
             h1 == IF entries[i].type = "Transform" /\ t # NULL
                   THEN TransformDeserialize(h, t, entries[i].data)
                   ELSE h
         IN  DeserializeComponents(h1, n, entries, i + 1)

\* The map handling of Node::Deserialize: the fast-path pointer is read, the map
\* is cleared, and the pointer is put back when it is not null.
ResetComponents(h, n) ==
    LET t == GetTransform(h, n)
    IN  [h EXCEPT !.node[n].components =
            [NoComponents EXCEPT !["Transform"] = t]]

\* Node::Deserialize.
RECURSIVE NodeDeserialize(_, _, _)
RECURSIVE DeserializeChildren(_, _, _, _)
NodeDeserialize(h, n, d) ==
    LET h1 == [h EXCEPT !.node[n].name = d.name, !.node[n].active = d.active]
        h2 == ResetComponents(h1, n)
        h3 == DeserializeComponents(h2, n, d.components, 1)
        h4 == [h3 EXCEPT !.node[n].children = <<>>]
    IN  DeserializeChildren(h4, n, d.children, 1)

DeserializeChildren(h, n, ds, i) ==
    IF i > Len(ds) THEN h
    ELSE LET h1 == NewNode(h, "Node")
             c == Len(h1.node)
             h2 == NodeDeserialize(h1, c, ds[i])
             h3 == AddChild(h2, n, c)
         IN  DeserializeChildren([h3 EXCEPT !.node[c].parent = n], n, ds, i + 1)

\* Scene::Deserialize, on the Scene whose root list is h.roots.
RECURSIVE DeserializeRoots(_, _, _)
DeserializeRoots(h, ds, i) ==
    IF i > Len(ds) THEN h
    ELSE LET h1 == NewNode(h, "Node")
             n == Len(h1.node)
             h2 == NodeDeserialize(h1, n, ds[i])
         IN  DeserializeRoots([h2 EXCEPT !.roots = Append(@, n)], ds, i + 1)

SceneDeserialize(h, d) == DeserializeRoots([h EXCEPT !.roots = <<>>], d.rootNodes, 1)

\* ------------------------------------------------------------------ inputs

Names == {"a", "b"}

Positions == {Vec3(1, 0, 0), Vec3(1, 2, 3)}

Rotations == {Vec3(0, 0, 1)}

Scales == {Vec3(2, 2, 2)}

LeafDoc(nm, act, entries) ==
    [name |-> nm, active |-> act, components |-> entries, children |-> <<>>]

TransformEntry(p, r, s) ==
    [type |-> "Transform",
     data |-> [position |-> VecSerialize(p), rotation |-> VecSerialize(r),
               scale |-> VecSerialize(s)]]

\* Documents handed to Node::Deserialize: a Transform entry, an entry of a type
\* the loader does not know, no entry at all, and a node with one child.
Docs ==
    { LeafDoc("a", TRUE, <<TransformEntry(Vec3(1, 2, 3), Vec3(0, 0, 1), Vec3(2, 2, 2))>>),
      LeafDoc("b", FALSE, <<[type |-> "Other", data |-> [payload |-> "other"]]>>),
      LeafDoc("a", TRUE, <<>>),
      [name |-> "b", active |-> TRUE, components |-> <<>>,
       children |-> <<LeafDoc("a", FALSE,
                        <<TransformEntry(Vec3(1, 0, 0), Vec3(0, 0, 0), Vec3(1, 1, 1))>>)>>] }

\* ------------------------------------------------------------------- state

Nodes == 1..Len(node)

Comps == 1..Len(comp)

Transforms == {t \in Comps : comp[t].type = "Transform"}

\* The call the client made last: its name and arguments.  s is a string
\* argument and r a per-component tally, for the calls that have one.
Op(name, n, m, b, v) ==
    [name |-> name, n |-> n, m |-> m, b |-> b, v |-> v, s |-> "", r |-> <<>>]

NoVec == Vec3(0, 0, 0)

FeIdle == [pc |-> "idle", allNodes |-> <<>>, i |-> 0, visited |-> <<>>,
           entryRoots |-> <<>>, entryNode |-> <<>>]

\* The state after a call that returned heap h2 (or that never returned).
Commit(h2, o) ==
    /\ op' = o
    /\ IF h2.crashed
       THEN crashed' = TRUE /\ UNCHANGED <<node, comp, rootNodes>>
       ELSE /\ node' = h2.node
            /\ comp' = h2.comp
            /\ rootNodes' = h2.roots
            /\ crashed' = FALSE

Idle == ~crashed /\ fe.pc # "iter" /\ loaded = <<>>

Call(h2, o) == Idle /\ Commit(h2, o) /\ fe' = FeIdle /\ UNCHANGED <<loaded, doc>>

Init ==
    /\ node = <<>>
    /\ comp = <<>>
    /\ rootNodes = <<>>
    /\ crashed = FALSE
    /\ op = Op("Scene", NULL, NULL, FALSE, NoVec)
    /\ loaded = <<>>
    /\ doc = NoDoc
    /\ fe = FeIdle
    /\ calls = 0

\* A call of a client that makes at most MaxCalls calls, and of one that may go on.
Counted(A) == calls < MaxCalls /\ A /\ calls' = calls + 1

Free(A) == A /\ UNCHANGED calls

\* A call of a client that makes at most max calls.
Budget(max, A) == calls < max /\ A /\ calls' = calls + 1

\* ----------------------------------------------------------------- actions

CreateNodeAct(max, names) ==
    \E nm \in names :
        /\ Len(node) < max
        /\ Call(CreateNode(Heap, nm), Op("CreateNode", Len(node) + 1, NULL, FALSE, NoVec))

CreateNodeWithParentAct(max, names) ==
    \E nm \in names, p \in Nodes \cup {NULL} :
        /\ Len(node) < max
        /\ Call(CreateNodeWithParent(Heap, p, nm),
                Op("CreateNodeWithParent", Len(node) + 1, p, FALSE, NoVec))

SetParentAct ==
    \E n \in Nodes, p \in Nodes \cup {NULL} :
        Call(SetParent(Heap, n, p), Op("SetParent", n, p, FALSE, NoVec))

\* A client that parents the node it created last.
SetParentLastAct ==
    \E p \in Nodes :
        /\ node # <<>>
        /\ Call(SetParent(Heap, Len(node), p), Op("SetParent", Len(node), p, FALSE, NoVec))

RemoveParentAct ==
    \E n \in Nodes : Call(RemoveParent(Heap, n), Op("RemoveParent", n, NULL, FALSE, NoVec))

SetActiveAct ==
    \E n \in Nodes, b \in BOOLEAN :
        Call(SetActive(Heap, n, b), Op("SetActive", n, NULL, b, NoVec))

SetNameAct ==
    \E n \in Nodes, nm \in Names :
        Call([Heap EXCEPT !.node[n].name = nm], Op("SetName", n, NULL, FALSE, NoVec))

RemoveNodeAct ==
    \E n \in Nodes : Call(RemoveNode(Heap, n), Op("RemoveNode", n, NULL, FALSE, NoVec))

AddComponentAct(extra) ==
    \E n \in Nodes, ty \in TypeNames :
        /\ Len(comp) < Len(node) + extra
        /\ Call(AddComponent(Heap, n, ty, n), Op("AddComponent", n, Len(comp) + 1, FALSE, NoVec))

\* A client that replaces the Transform the constructor attached, once per node:
\* node->AddComponent<Transform>() on a node a shared_ptr owns.
AddTransformAct ==
    \E n \in Nodes :
        /\ GetComponentTransform(Heap, n) = node[n].first
        /\ Call(AddComponent(Heap, n, "Transform", n),
                Op("AddComponent", n, Len(comp) + 1, FALSE, NoVec))

RemoveComponentAct ==
    \E n \in Nodes, ty \in TypeNames :
        Call(RemoveComponent(Heap, n, ty),
             Op("RemoveComponent", n, node[n].components[ty], FALSE, NoVec))

SetLocalPositionAct ==
    \E t \in Transforms, v \in Positions :
        Call(SetLocalPosition(Heap, t, v), Op("SetLocalPosition", NULL, t, FALSE, v))

SetLocalRotationAct ==
    \E t \in Transforms, v \in Rotations :
        Call(SetLocalRotation(Heap, t, v), Op("SetLocalRotation", NULL, t, FALSE, v))

SetLocalScaleAct ==
    \E t \in Transforms, v \in Scales :
        Call(SetLocalScale(Heap, t, v), Op("SetLocalScale", NULL, t, FALSE, v))

TranslateLocalAct ==
    \E t \in Transforms, d \in Positions :
        Call(TranslateLocal(Heap, t, d), Op("TranslateLocal", NULL, t, FALSE, d))

RotateLocalAct ==
    \E t \in Transforms, d \in Rotations :
        Call(RotateLocal(Heap, t, d), Op("RotateLocal", NULL, t, FALSE, d))

\* One of the three world getters; op.v is the value it returned.
GetWorldAct ==
    \E t \in Transforms, which \in {"GetWorldPosition", "GetWorldRotation", "GetWorldScale"} :
        LET h2 == GetWorld(Heap, t)
            v == CASE which = "GetWorldPosition" -> h2.comp[t].worldPosition
                   [] which = "GetWorldRotation" -> h2.comp[t].worldRotation
                   [] OTHER -> h2.comp[t].worldScale
        IN  Call(h2, Op(which, NULL, t, FALSE, v))

NodeDeserializeAct(max) ==
    \E n \in Nodes, d \in Docs :
        /\ Len(node) + NodeDocSize(d) - 1 <= max
        /\ Call(NodeDeserialize(Heap, n, d), Op("Deserialize", n, NULL, FALSE, NoVec))

\* scene2.Deserialize(scene.Serialize()): the document is kept in doc and the
\* second Scene's root list in loaded.  The run ends with the loaded Scene.
SaveAndLoadAct ==
    LET d == SceneSerialize(Heap)
        h2 == SceneDeserialize(Heap, d)
    IN  /\ Idle
        /\ rootNodes # <<>>
        /\ fe' = FeIdle
        /\ op' = Op("SaveAndLoad", NULL, NULL, FALSE, NoVec)
        /\ IF SceneDocOverflows(d)
           THEN crashed' = TRUE /\ UNCHANGED <<node, comp, rootNodes, loaded, doc>>
           ELSE /\ node' = h2.node
                /\ comp' = h2.comp
                /\ loaded' = h2.roots
                /\ doc' = d
                /\ UNCHANGED <<rootNodes, crashed>>

\* Scene::FindNodeByName(nm); op.n is the node returned, NULL for a null result.
FindNodeByNameAct ==
    \E nm \in Names :
        /\ rootNodes # <<>>
        /\ IF Overflows(CollectAllNodes(Heap))
           THEN Call([Heap EXCEPT !.crashed = TRUE],
                     [Op("FindNodeByName", NULL, NULL, FALSE, NoVec) EXCEPT !.s = nm])
           ELSE Call(Heap,
                     [Op("FindNodeByName", FindNodeByName(Heap, nm), NULL, FALSE, NoVec)
                         EXCEPT !.s = nm])

\* Scene::Update(dt); op.r is the number of Update calls each component received.
UpdateAct ==
    /\ rootNodes # <<>>
    /\ IF Overflows(CollectAllNodes(Heap))
       THEN Call([Heap EXCEPT !.crashed = TRUE], Op("Update", NULL, NULL, FALSE, NoVec))
       ELSE Call(Heap, [Op("Update", NULL, NULL, FALSE, NoVec) EXCEPT !.r = SceneUpdate(Heap)])

\* Scene::ForEachNode, one step per statement: the snapshot, one callback per
\* element of the snapshot, the return.  The vector the loop walks is the local
\* allNodes.
FeAllNodes_Live(f, h) == CollectAllNodes(h)

FeAllNodes(f, h) == f.allNodes

ForEachBeginAct ==
    LET all == CollectAllNodes(Heap)
    IN  /\ Idle
        /\ rootNodes # <<>>
        /\ op' = Op("ForEachNode", NULL, NULL, FALSE, NoVec)
        /\ UNCHANGED <<node, comp, rootNodes, loaded, doc>>
        /\ IF Overflows(all)
           THEN crashed' = TRUE /\ fe' = FeIdle
           ELSE /\ crashed' = FALSE
                /\ fe' = [pc |-> "iter", allNodes |-> all, i |-> 0, visited |-> <<>>,
                          entryRoots |-> rootNodes, entryNode |-> node]

\* The callback on the next element: it does nothing, removes the node it was
\* given, or creates a node (a root, or a child of the node it was given).
Callbacks == {"nothing", "RemoveNode", "CreateNode", "CreateNodeWithParent"}

ForEachVisitAct(max) ==
    \E cb \in Callbacks :
        LET all == FeAllNodes(fe, Heap)
            cur == all[fe.i + 1]
            h2 == CASE cb = "nothing" -> Heap
                    [] cb = "RemoveNode" -> RemoveNode(Heap, cur)
                    [] cb = "CreateNode" -> CreateNode(Heap, "a")
                    [] OTHER -> CreateNodeWithParent(Heap, cur, "a")
        IN  /\ ~crashed /\ fe.pc = "iter"
            /\ fe.i < Len(all)
            /\ cb \in {"CreateNode", "CreateNodeWithParent"} => Len(node) < max
            /\ Commit(h2, Op(cb, cur, NULL, FALSE, NoVec))
            /\ fe' = [fe EXCEPT !.i = fe.i + 1, !.visited = Append(fe.visited, cur)]
            /\ UNCHANGED <<loaded, doc>>

ForEachReturnAct ==
    /\ ~crashed /\ fe.pc = "iter"
    /\ fe.i >= Len(FeAllNodes(fe, Heap))
    /\ fe' = [fe EXCEPT !.pc = "done"]
    /\ op' = Op("ForEachNodeReturn", NULL, NULL, FALSE, NoVec)
    /\ UNCHANGED <<node, comp, rootNodes, crashed, loaded, doc>>

\* ----------------------------------------------------------- specifications

\* The hierarchy: Scene and Node calls on nodes that keep their first Transform.
Next ==
    \/ Free(CreateNodeAct(MaxNodes, {"a"}))
    \/ Free(CreateNodeWithParentAct(MaxNodes, {"a"}))
    \/ Free(SetParentAct)
    \/ Free(RemoveParentAct)
    \/ Free(RemoveNodeAct)

Spec == Init /\ [][Next]_vars

\* The active flag.
NextActive ==
    \/ Free(CreateNodeAct(MaxNodes, {"a"}))
    \/ Free(CreateNodeWithParentAct(MaxNodes, {"a"}))
    \/ Free(SetParentAct)
    \/ Free(SetActiveAct)

SpecActive == Init /\ [][NextActive]_vars

\* Traversal: ForEachNode and its callbacks over a Scene under construction.
NextTraversal ==
    \/ Free(CreateNodeAct(MaxNodes, {"a"}))
    \/ Free(CreateNodeWithParentAct(MaxNodes, {"a"}))
    \/ Free(SetParentLastAct)
    \/ Free(RemoveNodeAct)
    \/ Free(ForEachBeginAct)
    \/ Free(ForEachVisitAct(MaxNodes))
    \/ Free(ForEachReturnAct)

SpecTraversal == Init /\ [][NextTraversal]_vars

\* Transforms: the local setters and world getters over a small hierarchy.
NextTransform ==
    \/ Counted(CreateNodeAct(MaxNodes, {"a"}))
    \/ Counted(CreateNodeWithParentAct(MaxNodes, {"a"}))
    \/ Counted(SetParentAct)
    \/ Counted(RemoveParentAct)
    \/ Counted(AddComponentAct(MaxExtra))
    \/ Counted(RemoveComponentAct)
    \/ Counted(SetLocalPositionAct)
    \/ Counted(SetLocalRotationAct)
    \/ Counted(SetLocalScaleAct)
    \/ Counted(TranslateLocalAct)
    \/ Counted(RotateLocalAct)
    \/ Counted(GetWorldAct)

SpecTransform == Init /\ [][NextTransform]_vars

\* Components and Node::Deserialize.
NextComponents ==
    \/ Counted(CreateNodeAct(MaxNodes, {"a"}))
    \/ Counted(CreateNodeWithParentAct(MaxNodes, {"a"}))
    \/ Counted(AddComponentAct(MaxExtra))
    \/ Counted(RemoveComponentAct)
    \/ Counted(NodeDeserializeAct(MaxNodes))

SpecComponents == Init /\ [][NextComponents]_vars

\* Save and load: the calls of a client that builds a Scene and round-trips it.
NextSerial ==
    \/ Counted(CreateNodeAct(MaxNodes, {"a"}))
    \/ Counted(CreateNodeWithParentAct(MaxNodes, {"a"}))
    \/ Counted(SetParentAct)
    \/ Counted(SetActiveAct)
    \/ Counted(SetNameAct)
    \/ Counted(SetLocalPositionAct)
    \/ Counted(SetLocalRotationAct)
    \/ Counted(SetLocalScaleAct)
    \/ Counted(SaveAndLoadAct)

SpecSerial == Init /\ [][NextSerial]_vars

\* Removal, on a larger Scene.
NextRemoval ==
    \/ Free(CreateNodeAct(MaxRemovalNodes, {"a"}))
    \/ Free(CreateNodeWithParentAct(MaxRemovalNodes, {"a"}))
    \/ Free(SetParentLastAct)
    \/ Free(RemoveNodeAct)

SpecRemoval == Init /\ [][NextRemoval]_vars

\* Lookup by name, over nodes of either name.
NextFind ==
    \/ Free(CreateNodeAct(MaxNodes, Names))
    \/ Free(CreateNodeWithParentAct(MaxNodes, Names))
    \/ Free(SetParentLastAct)
    \/ Free(RemoveNodeAct)
    \/ Free(FindNodeByNameAct)

SpecFind == Init /\ [][NextFind]_vars

\* The per-tick sweep, over nodes that are activated, deactivated and moved.
NextUpdate ==
    \/ Free(CreateNodeAct(MaxNodes, {"a"}))
    \/ Free(CreateNodeWithParentAct(MaxNodes, {"a"}))
    \/ Free(SetParentLastAct)
    \/ Free(RemoveParentAct)
    \/ Free(SetActiveAct)
    \/ Free(RemoveNodeAct)
    \/ Free(UpdateAct)

SpecUpdate == Init /\ [][NextUpdate]_vars

\* Transforms attached by the client, whose owner reference is set.
NextOwned ==
    \/ Budget(MaxOwnedCalls, CreateNodeAct(MaxOwnedNodes, {"a"}))
    \/ Budget(MaxOwnedCalls, CreateNodeWithParentAct(MaxOwnedNodes, {"a"}))
    \/ Budget(MaxOwnedCalls, AddTransformAct)
    \/ Budget(MaxOwnedCalls, SetParentAct)
    \/ Budget(MaxOwnedCalls, RemoveParentAct)
    \/ Budget(MaxOwnedCalls, SetLocalPositionAct)
    \/ Budget(MaxOwnedCalls, SetLocalRotationAct)
    \/ Budget(MaxOwnedCalls, SetLocalScaleAct)
    \/ Budget(MaxOwnedCalls, GetWorldAct)

SpecOwned == Init /\ [][NextOwned]_vars

\* The same Transforms, detached again with RemoveComponent<Transform>().
NextDetach ==
    \/ Budget(MaxOwnedCalls, CreateNodeAct(MaxOwnedNodes, {"a"}))
    \/ Budget(MaxOwnedCalls, CreateNodeWithParentAct(MaxOwnedNodes, {"a"}))
    \/ Budget(MaxOwnedCalls, AddTransformAct)
    \/ Budget(MaxOwnedCalls, RemoveComponentAct)
    \/ Budget(MaxOwnedCalls, SetLocalPositionAct)
    \/ Budget(MaxOwnedCalls, SetLocalScaleAct)
    \/ Budget(MaxOwnedCalls, GetWorldAct)

SpecDetach == Init /\ [][NextDetach]_vars

\* Reparenting at will, over Transforms with and without an owner reference.
NextCycles ==
    \/ Counted(CreateNodeAct(MaxNodes, {"a"}))
    \/ Counted(CreateNodeWithParentAct(MaxNodes, {"a"}))
    \/ Counted(SetParentAct)
    \/ Counted(AddTransformAct)
    \/ Counted(GetWorldAct)

SpecCycles == Init /\ [][NextCycles]_vars

\* ------------------------------------------------------- derived notions

SeqSet(q) == {q[i] : i \in 1..Len(q)}

\* The nodes reachable from the set S through children lists, S included.
RECURSIVE ChildClosure(_, _, _)
ChildClosure(h, S, k) ==
    IF k = 0 THEN S
    ELSE ChildClosure(h, S \cup UNION {SeqSet(h.node[x].children) : x \in S}, k - 1)

\* The descendants of n: its children, their children, and so on.
Descendants(h, n) == ChildClosure(h, SeqSet(h.node[n].children), Len(h.node))

\* The nodes of the Scene: those reachable from the root list.
Reachable(h) == ChildClosure(h, SeqSet(h.roots), Len(h.node))

\* The Transform a node holds in its component map, and what the three world
\* getters return on it when called in the state h.
WorldOf(h, t) ==
    LET g == GetWorld(h, t)
    IN  [position |-> g.comp[t].worldPosition, rotation |-> g.comp[t].worldRotation,
         scale |-> g.comp[t].worldScale, returns |-> ~g.crashed]

\* --------------------------------------------------------------- claims

\* C1: a node whose parent has a Transform gets, from its world getters,
\* parent world position + local position * parent world scale, parent world
\* rotation + local rotation, and parent world scale * local scale.
C1_WorldFormula ==
    \A n \in Nodes :
        LET t == GetComponentTransform(Heap, n)
            p == node[n].parent
            pt == IF p = NULL THEN NULL ELSE GetComponentTransform(Heap, p)
        IN  (~crashed /\ t # NULL /\ pt # NULL /\ WorldOf(Heap, t).returns) =>
                LET w == WorldOf(Heap, t)
                    pw == WorldOf(Heap, pt)
                IN  /\ w.position = VAdd(pw.position, VMul(comp[t].localPosition, pw.scale))
                    /\ w.rotation = VAdd(pw.rotation, comp[t].localRotation)
                    /\ w.scale = VMul(pw.scale, comp[t].localScale)

\* C2: a node with no parent, or whose parent has no Transform, gets its local
\* position, rotation and scale from its world getters.
C2_RootWorldIsLocal ==
    \A n \in Nodes :
        LET t == GetComponentTransform(Heap, n)
            p == node[n].parent
            pt == IF p = NULL THEN NULL ELSE GetComponentTransform(Heap, p)
        IN  (~crashed /\ t # NULL /\ pt = NULL) =>
                LET w == WorldOf(Heap, t)
                IN  /\ w.position = comp[t].localPosition
                    /\ w.rotation = comp[t].localRotation
                    /\ w.scale = comp[t].localScale

\* C3: right after a local setter on the Transform of a node P, the Transform
\* of every child of P is dirty, P and the child holding the Transform their
\* constructor attached.
C3_SetterDirtiesChildren ==
    \A p \in Nodes :
        (/\ op.name \in {"SetLocalPosition", "SetLocalRotation", "SetLocalScale"}
         /\ GetComponentTransform(Heap, p) = op.m
         /\ node[p].first = op.m) =>
            \A c \in SeqSet(node[p].children) :
                GetComponentTransform(Heap, c) = node[c].first =>
                    comp[node[c].first].dirty

\* C5: a node has a Transform in its component map right after construction
\* and right after every Node::Deserialize call.
C5_TransformAfterDeserialize ==
    (op.name \in {"CreateNode", "CreateNodeWithParent", "Deserialize"}) =>
        HasComponent(Heap, op.n, "Transform")

\* C6: a node is in a node's children list exactly when its parent reference
\* points to that node.
C6_ParentChildrenAgree ==
    \A n \in Nodes, p \in Nodes :
        (n \in SeqSet(node[p].children)) <=> (node[n].parent = p)

\* C7: SetParent(null) and RemoveParent() lead from the same state to the same
\* state, in which the node has no parent.
C7_SetParentNullIsRemoveParent ==
    \A n \in Nodes :
        /\ SetParent(Heap, n, NULL) = RemoveParent(Heap, n)
        /\ SetParent(Heap, n, NULL).node[n].parent = NULL

\* C8: right after SetActive(false) on a node, the node and all its
\* descendants are inactive.
C8_DeactivateCascades ==
    (op.name = "SetActive" /\ ~op.b) =>
        \A d \in {op.n} \cup Descendants(Heap, op.n) : ~node[d].active

\* ForEachNode's number of callbacks: the length of the snapshot.
ForEachCount(h) == Len(CollectAllNodes(h))

\* n has exactly two children, each with exactly one child, which has none.
TwoByOne(h, n) ==
    /\ Len(h.node[n].children) = 2
    /\ \A i \in 1..2 :
          LET c == h.node[n].children[i]
          IN  /\ Len(h.node[c].children) = 1
              /\ h.node[h.node[c].children[1]].children = <<>>

\* C9: a RemoveNode(n) step takes n and its descendants out of the reachable
\* set and no other node, and lowers the ForEachNode count by 5 when n has two
\* children with one child each.
C9_RemoveNodeStep ==
    (op'.name = "RemoveNode" /\ ~crashed' /\ fe.pc # "iter") =>
        LET n == op'.n
            gone == {n} \cup Descendants(Heap, n)
        IN  /\ Reachable(Heap') \cap gone = {}
            /\ Reachable(Heap) \ gone \subseteq Reachable(Heap')
            /\ (TwoByOne(Heap, n) /\ n \in Reachable(Heap)
                    /\ ~Overflows(CollectAllNodes(Heap))) =>
                   ForEachCount(Heap) - ForEachCount(Heap') = 5

\* C9: every RemoveNode(n) step removes n and its descendants from the reachable
\* set, removes nothing else, and lowers the ForEachNode count by exactly 5
\* when n has two children with one child each.
C9_RemoveNodeRemovesSubtree == [][C9_RemoveNodeStep]_vars

\* The part of C9 about the reachable set alone.
C9_SetStep ==
    (op'.name = "RemoveNode" /\ ~crashed') =>
        LET gone == {op'.n} \cup Descendants(Heap, op'.n)
        IN  /\ Reachable(Heap') \cap gone = {}
            /\ Reachable(Heap) \ gone \subseteq Reachable(Heap')

\* The set part of C9 alone: n and its descendants leave the reachable set and
\* every other reachable node stays.
C9_ReachableSet == [][C9_SetStep]_vars

\* The pre-order of the Scene as it was when ForEachNode was entered.
EntryOrder ==
    CollectAllNodes([node |-> fe.entryNode, comp |-> <<>>, roots |-> fe.entryRoots,
                     crashed |-> FALSE])

\* C10: ForEachNode calls back on exactly the nodes that were reachable when it
\* was entered, in pre-order, whatever nodes the callbacks remove or create.
C10_TraversalIsEntrySnapshot ==
    /\ fe.pc = "iter" => fe.i <= Len(EntryOrder) /\ fe.visited = SubSeq(EntryOrder, 1, fe.i)
    /\ fe.pc = "done" => fe.visited = EntryOrder

\* A traversal that returned after one callback removed the node it was given,
\* with a node of the snapshot still to visit, and another created a node.
C10_Witness ==
    /\ fe.pc = "done"
    /\ Len(fe.visited) >= 2
    /\ fe.visited[1] \notin Reachable(Heap)
    /\ Len(node) > Len(fe.entryNode)
    /\ Len(node) \in Reachable(Heap)

\* Two Scenes' forests agree: name, active flag, the Transform's three local
\* values, and the children in order.
RECURSIVE SameTree(_, _, _, _)
SameTree(h, a, b, depth) ==
    /\ depth <= Len(h.node)
    /\ h.node[a].name = h.node[b].name
    /\ h.node[a].active = h.node[b].active
    /\ HasComponent(h, a, "Transform") /\ HasComponent(h, b, "Transform")
    /\ LET ta == h.comp[GetComponentTransform(h, a)]
           tb == h.comp[GetComponentTransform(h, b)]
       IN  /\ ta.localPosition = tb.localPosition
           /\ ta.localRotation = tb.localRotation
           /\ ta.localScale = tb.localScale
    /\ Len(h.node[a].children) = Len(h.node[b].children)
    /\ \A i \in 1..Len(h.node[a].children) :
           SameTree(h, h.node[a].children[i], h.node[b].children[i], depth + 1)

SameForest(h, ra, rb) ==
    /\ Len(ra) = Len(rb)
    /\ \A i \in 1..Len(ra) : SameTree(h, ra[i], rb[i], 1)

\* What C4 says of the state a completed save and load leaves.
RoundTrip ==
    LET h2 == [Heap EXCEPT !.roots = loaded]
    IN  /\ SameForest(Heap, rootNodes, loaded)
        /\ \A m \in Reachable(h2) : \A c \in SeqSet(node[m].children) : node[c].parent = m
        /\ SceneSerialize(h2) = doc

\* C4 as stated: saving any Scene and loading the document yields the same
\* forest, and saving the loaded Scene the same document.
C4_RoundTripAlways ==
    op.name = "SaveAndLoad" => ~crashed /\ RoundTrip

\* C4 amended: the same, for every Scene whose Serialize call returns, that is
\* one in which no node is reachable from itself through children lists.
C4_RoundTripWhenAcyclic ==
    (op.name = "SaveAndLoad" /\ ~crashed) => RoundTrip

\* A loaded Scene with a child, an inactive node and a Transform moved from its
\* defaults.
C4_Witness ==
    /\ op.name = "SaveAndLoad" /\ ~crashed
    /\ \E r \in SeqSet(loaded) : node[r].children # <<>>
    /\ \E m \in Reachable([Heap EXCEPT !.roots = loaded]) :
          comp[GetComponentTransform(Heap, m)].localPosition # Vec3(0, 0, 0)
    /\ \E m \in Reachable([Heap EXCEPT !.roots = loaded]) : ~node[m].active

\* The first node of the pre-order all whose name is name, NULL if there is none.
FirstMatch(h, all, name) ==
    LET S == {i \in 1..Len(all) : h.node[all[i]].name = name}
    IN  IF S = {} THEN NULL ELSE all[CHOOSE i \in S : \A j \in S : i <= j]

\* C11: FindNodeByName returns the first node of ForEachNode's pre-order whose
\* name equals the argument, and null when no reachable node has that name.
C11_FindReturnsFirstMatch ==
    (op.name = "FindNodeByName" /\ ~crashed) =>
        op.n = FirstMatch(Heap, CollectAllNodes(Heap), op.s)

\* C12: in one Scene::Update call every component held by a reachable active
\* node receives Update exactly once, and no component of an inactive node
\* receives it.
C12_UpdateExactlyOnce ==
    (op.name = "Update" /\ ~crashed) =>
        \A t \in Comps :
            LET n == Holder(Heap, t)
            IN  /\ (n # NULL /\ n \in Reachable(Heap) /\ node[n].active) => op.r[t] = 1
                /\ (n # NULL /\ ~node[n].active) => op.r[t] = 0

\* C13: OnAttach ran exactly once on every component, when the component was
\* already in the component map of the node it was added to and its owner
\* reference locked to that node.
C13_OnAttachWithOwner ==
    \A t \in Comps :
        /\ comp[t].attachCalls = 1
        /\ comp[t].attachHolder # NULL
        /\ comp[t].attachOwner = comp[t].attachHolder

\* What C14 says of one step.
C14_CreateNodeStep ==
    /\ op'.name = "CreateNode" =>
           LET n == op'.n
           IN  /\ n = Len(node) + 1
               /\ rootNodes' = Append(rootNodes, n)
               /\ node'[n].parent = NULL
               /\ \A m \in Nodes : node'[m] = node[m]
    /\ (op'.name = "CreateNodeWithParent" /\ op'.m # NULL) =>
           LET n == op'.n
               p == op'.m
           IN  /\ n = Len(node) + 1
               /\ rootNodes' = rootNodes
               /\ node'[p].children = Append(node[p].children, n)
               /\ node'[n].parent = p
               /\ \A m \in Nodes \ {p} : node'[m] = node[m]
               /\ (n \in Reachable(Heap')) <=> (p \in Reachable(Heap'))

\* C14: CreateNode(name) appends the new, parentless node to the root list;
\* CreateNode(parent, name) leaves the root list alone, makes the new node the
\* last child of parent with its parent reference set, and the new node is
\* reachable exactly when parent is.
C14_CreateNodeFrame == [][C14_CreateNodeStep]_vars

\* A node created under a parent that RemoveNode had taken out of the Scene.
C14_Witness ==
    /\ op.name = "CreateNodeWithParent" /\ op.m # NULL
    /\ rootNodes # <<>>
    /\ op.m \notin Reachable(Heap)
    /\ op.n \notin Reachable(Heap)
    /\ node[op.m].children = <<op.n>>

\* What C15 says of one SetParent step.
C15_SetParentStep ==
    LET n == op'.n
        t == GetTransform(Heap, n)
    IN  (/\ op'.name = "SetParent" /\ op'.m # NULL /\ ~crashed'
         /\ t # NULL /\ WorldOf(Heap, t).returns) =>
            LET w == WorldOf(Heap, t)
            IN  /\ comp'[t].localPosition = w.position
                /\ comp'[t].localRotation = w.rotation
                /\ comp'[t].localScale = w.scale

\* C15: after SetParent(newParent) with a non-null newParent, the node's
\* Transform has as local position, rotation and scale the world position,
\* rotation and scale its getters would have returned just before the call.
C15_LocalBecomesOldWorld == [][C15_SetParentStep]_vars

\* The world values of node n's Transform computed afresh from the local values
\* along n's parent chain: the local values when n has no parent or the parent
\* has no Transform, and otherwise the parent's fresh world values combined with
\* the local values.
RECURSIVE FreshWorld(_, _, _)
FreshWorld(h, n, k) ==
    LET c == h.comp[GetComponentTransform(h, n)]
        p == h.node[n].parent
        loc == [position |-> c.localPosition, rotation |-> c.localRotation,
                scale |-> c.localScale]
    IN  IF k = 0 \/ p = NULL THEN loc
        ELSE IF GetComponentTransform(h, p) = NULL THEN loc
        ELSE LET pw == FreshWorld(h, p, k - 1)
             IN  [position |-> VAdd(pw.position, VMul(c.localPosition, pw.scale)),
                  rotation |-> VAdd(pw.rotation, c.localRotation),
                  scale |-> VMul(pw.scale, c.localScale)]

\* Node n holds a Transform whose owner reference is n and is in the children
\* list of its parent, if it has one, and so for each of its ancestors that
\* holds a Transform, the chain being at most k parents long.
RECURSIVE OwnedChain(_, _, _)
OwnedChain(h, n, k) ==
    LET t == GetComponentTransform(h, n)
        p == h.node[n].parent
    IN  /\ t # NULL
        /\ h.comp[t].owner = n
        /\ \/ p = NULL
           \/ /\ n \in SeqSet(h.node[p].children)
              /\ \/ GetComponentTransform(h, p) = NULL
                 \/ k > 0 /\ OwnedChain(h, p, k - 1)

\* C16: a Transform that is not dirty caches the world values a fresh
\* recomputation along its owner's parent chain gives.  Stated here for the
\* Transforms whose owner reference is set, on a node that has no parent or
\* is a child, by reference and by children list, of a node that has none.
C16_CleanCacheIsFresh ==
    \A n \in Nodes :
        LET t == GetComponentTransform(Heap, n)
        IN  (~crashed /\ t # NULL /\ OwnedChain(Heap, n, 1) /\ ~comp[t].dirty) =>
                LET w == FreshWorld(Heap, n, 1)
                IN  /\ comp[t].worldPosition = w.position
                    /\ comp[t].worldRotation = w.rotation
                    /\ comp[t].worldScale = w.scale

\* C17: right after RemoveComponent<Transform>() the detached Transform's world
\* getters return its local position, rotation and scale.
C17_DetachedWorldIsLocal ==
    (/\ op.name = "RemoveComponent" /\ ~crashed
     /\ op.m # NULL /\ comp[op.m].type = "Transform") =>
        LET w == WorldOf(Heap, op.m)
        IN  /\ w.returns
            /\ w.position = comp[op.m].localPosition
            /\ w.rotation = comp[op.m].localRotation
            /\ w.scale = comp[op.m].localScale

\* What C18 says of one RemoveComponent or Node::Deserialize step.
C18_DetachStep ==
    (op'.name \in {"RemoveComponent", "Deserialize"} /\ ~crashed') =>
        \A t \in Comps :
            (Holder(Heap, t) # NULL /\ Holder(Heap', t) = NULL) =>
                /\ comp'[t].detachCalls = 1
                /\ comp'[t].detachHolder = Holder(Heap, t)

\* C18: a component that leaves a node's component map through
\* RemoveComponent<T>() or through Node::Deserialize clearing the map has had
\* OnDetach invoked on it exactly once, while it was still in the map.
C18_DetachBeforeLeaving == [][C18_DetachStep]_vars

\* The nodes met by following parent references from n, n excluded unless the
\* references lead back to it.
RECURSIVE ParentClosure(_, _, _)
ParentClosure(h, S, k) ==
    IF k = 0 THEN S
    ELSE ParentClosure(h, S \cup ({h.node[x].parent : x \in S} \ {NULL}), k - 1)

Ancestors(h, n) == ParentClosure(h, {h.node[n].parent} \ {NULL}, Len(h.node))

\* No node is its own ancestor, and none is reachable from itself through
\* children lists.
Acyclic(h) ==
    \A n \in 1..Len(h.node) : n \notin Ancestors(h, n) /\ n \notin Descendants(h, n)

\* ForEachNode returns, and so does every world getter.
Terminates(h) ==
    /\ ~Overflows(CollectAllNodes(h))
    /\ \A t \in 1..Len(h.comp) : h.comp[t].type = "Transform" => WorldOf(h, t).returns

\* The test spec 3(c) leaves to the caller of n->SetParent(p): p is not n and n
\* is not among p's ancestors.
CallerChecked(h, n, p) == p = NULL \/ (p # n /\ n \notin Ancestors(h, p))

\* C19 as stated: after any SetParent calls there is no cycle of parent
\* references or of children lists, and ForEachNode and the world
\* recomputation terminate.
C19_NoCycles == ~crashed /\ Acyclic(Heap) /\ Terminates(Heap)

C19_Step ==
    (/\ ~crashed /\ Acyclic(Heap)
     /\ op'.name = "SetParent" => CallerChecked(Heap, op'.n, op'.m)) =>
        (~crashed' /\ Acyclic(Heap') /\ Terminates(Heap'))

\* C19 amended: a call that starts without a cycle ends without one, and with
\* ForEachNode and the world recomputation terminating, unless it is a
\* SetParent call that hands a node itself or a node that has it among its
\* ancestors.
C19_CheckedSetParentKeepsAcyclic == [][C19_Step]_vars

\* A checked SetParent call that put a node with an owned Transform two levels
\* below a root.
C19_Witness ==
    /\ op.name = "SetParent" /\ op.m # NULL /\ ~crashed
    /\ Acyclic(Heap)
    /\ node[op.n].parent = op.m
    /\ node[op.m].parent \notin {NULL, op.n}
    /\ GetTransform(Heap, op.n) # NULL
    /\ comp[GetTransform(Heap, op.n)].owner = op.n

\* C20: no node is both in the Scene's root list and in a node's children
\* list, and the ForEachNode snapshot lists every reachable node exactly once.
\* Stated here for the states without a cycle, which a caller who keeps to the
\* rule against cyclic parenting never leaves.
C20_NoRootAndChild ==
    Acyclic(Heap) =>
        /\ \A n \in Nodes :
               ~(n \in SeqSet(rootNodes) /\ \E p \in Nodes : n \in SeqSet(node[p].children))
        /\ LET all == CollectAllNodes(Heap)
           IN  /\ SeqSet(all) = Reachable(Heap)
               /\ \A i, j \in 1..Len(all) : all[i] = all[j] => i = j

\* C21: on every node GetTransform() is non-null exactly when
\* HasComponent<Transform>() is true, and is then the instance
\* GetComponent<Transform>() returns.
C21_FastPathAgreesWithMap ==
    \A n \in Nodes :
        /\ (GetTransform(Heap, n) # NULL) <=> HasComponent(Heap, n, "Transform")
        /\ GetTransform(Heap, n) # NULL =>
               GetTransform(Heap, n) = GetComponentTransform(Heap, n)

\* Node::Deserialize has run on a node whose Transform the client had replaced,
\* while another node had its Transform removed.
C21_Witness ==
    /\ op.name = "Deserialize" /\ ~crashed
    /\ GetTransform(Heap, op.n) # NULL
    /\ GetTransform(Heap, op.n) # node[op.n].first
    /\ \E m \in Nodes : GetTransform(Heap, m) = NULL /\ comp[node[m].first].detachCalls = 1

====
